---- MODULE Spec2Model ----
(***************************************************************************)
(* uwuchat client (src/src/client/client.py): the network Session          *)
(* (Client.net), the framed receive (Client.recv), the send units          *)
(* (Client.send) scheduled by the <Return> binding                         *)
(* (Client._entry_binding), the stop request (Client.stop) and the Pump    *)
(* (Client._async_run), run by one asyncio event loop.                     *)
(*                                                                         *)
(* The event loop is a FIFO queue of scheduled callbacks (`ready`); one    *)
(* action of the model is one callback run to its next suspension point.   *)
(* The loop works in iterations: it polls the sockets and the timers,      *)
(* queues their callbacks behind what the last iteration scheduled, and    *)
(* runs what is queued; what those callbacks schedule runs in the next     *)
(* iteration. A marker in the queue (TickCb) stands where the iteration    *)
(* ends: the loop polls when the marker is at the head.                    *)
(* Text is a sequence of code points, wire data a sequence of bytes.       *)
(***************************************************************************)
EXTENDS Integers, Sequences, FiniteSets, TLC

(***************************************************************************)
(* Bounds of the model.                                                    *)
(***************************************************************************)
\* what the peer does during a run: connect attempts it answers and socket
\* events it causes (a chunk of data, its end of file, an I/O error)
MaxPeer == 4
\* <Return> presses that schedule a send unit
MaxUnits == 2
\* length of the input texts enumerated for the <Return> binding
MaxText == 3
\* length of the byte streams enumerated for the framing check
MaxStream == 4

(***************************************************************************)
(* Bytes, code points, UTF-8.                                              *)
(***************************************************************************)
\* Client.MESSAGE_DELIMITER = b'\n'
MESSAGE_DELIMITER == 10

\* str.isspace() on the code points below 256: what str.strip() removes
IsSpace(c) == c \in {9, 10, 11, 12, 13, 28, 29, 30, 31, 32, 133, 160}

\* str.encode() of one code point below 2048 (one or two bytes)
EncodeChar(c) ==
    IF c < 128 THEN <<c>> ELSE <<192 + (c \div 64), 128 + (c % 64)>>

RECURSIVE Encode(_)
\* str.encode(): UTF-8
Encode(s) == IF s = <<>> THEN <<>> ELSE EncodeChar(Head(s)) \o Encode(Tail(s))

RECURSIVE DecodeFrom(_)
\* bytes.decode(): UTF-8, strict; [ok |-> FALSE] is UnicodeDecodeError
DecodeFrom(b) ==
    IF b = <<>> THEN [ok |-> TRUE, text |-> <<>>]
    ELSE IF b[1] < 128
         THEN LET r == DecodeFrom(Tail(b))
              IN  [ok |-> r.ok, text |-> <<b[1]>> \o r.text]
    ELSE IF /\ b[1] >= 194 /\ b[1] < 224
            /\ Len(b) >= 2 /\ b[2] >= 128 /\ b[2] < 192
         THEN LET r == DecodeFrom(Tail(Tail(b)))
              IN  [ok |-> r.ok,
                   text |-> <<(b[1] - 192) * 64 + (b[2] - 128)>> \o r.text]
    ELSE [ok |-> FALSE, text |-> <<>>]

RECURSIVE LStrip(_)
LStrip(s) == IF s # <<>> /\ IsSpace(Head(s)) THEN LStrip(Tail(s)) ELSE s

RECURSIVE RStrip(_)
RStrip(s) ==
    IF s # <<>> /\ IsSpace(s[Len(s)]) THEN RStrip(SubSeq(s, 1, Len(s) - 1)) ELSE s

\* str.strip()
Strip(s) == RStrip(LStrip(s))

\* `sub in s` on strings
Contains(s, sub) ==
    \E i \in 0..(Len(s) - Len(sub)) : SubSeq(s, i + 1, i + Len(sub)) = sub

(***************************************************************************)
(* State.                                                                  *)
(***************************************************************************)
VARIABLES
    name,        \* self.name, a constructor argument
    focused,     \* the window has the focus (self.focus_get() is not None)
    entry,       \* content of the self.entry Text widget
    idle_del,    \* an after_idle(self.entry.delete) callback is pending
    last_ret,    \* what the last run of _entry_binding returned and saw
    ready,       \* the event loop's FIFO of scheduled callbacks <<kind, id>>
    pump_pc,     \* position of _async_run
    net_pc,      \* position of the net task
    net_result,  \* how the net task ended
    net_exc,     \* the exception that ended the net task
    cancel_req,  \* net_task.cancel() was called and is not yet delivered
    reader,      \* self.reader: 0 is None, k the reader of transport k
    writer,      \* self.writer: 0 is None, k the writer of transport k
    trans,       \* transport k: "unused", "open", "closing", "closed"
    errored,     \* transport k was lost with an exception
    conn_res,    \* outcome of the pending open_connection
    rbuf,        \* buffer of the newest transport's StreamReader
    reof,        \* feed_eof() was called on it
    npeer,       \* what the peer has done so far, counted
    wire,        \* wire[k]: the write() calls transport k accepted, each with
                 \* the send unit that made it and its bytes
    units,       \* the send units, in the order they were scheduled
    log,         \* the Display Lines, in order
    notes,       \* the playsound calls, in order
    stop_pc,     \* where the net task stood at the first stop request that reached it
    stop_at,     \* how many Display Lines were logged by then
    restop,      \* a later stop request reached the task in wait_closed()
    refused,     \* connects refused since the receive loop last ended
    frames,      \* what the successive recv() calls returned
    stream,      \* framing runs: the whole byte stream of the peer
    fed          \* framing runs: how many of its bytes were fed

vars == <<name, focused, entry, idle_del, last_ret, ready, pump_pc, net_pc,
          net_result, net_exc, cancel_req, reader, writer, trans, errored,
          conn_res, rbuf, reof, npeer, wire, units, log, notes,
          stop_pc, stop_at, restop, refused, frames, stream, fed>>

uiVars == <<name, focused, entry, idle_del, last_ret>>
netVars == <<net_pc, net_result, net_exc, cancel_req, reader, writer>>
connVars == <<trans, errored, conn_res>>
readVars == <<rbuf, reof, npeer>>
stopVars == <<stop_pc, stop_at, restop>>
framingVars == <<stream, fed>>

Transports == 1..MaxPeer

\* the callbacks the loop schedules
NetCb == <<"net", 0>>
PumpCb == <<"pump", 0>>
SendCb(i) == <<"send", i>>
LostCb(k) == <<"lost", k>>
ReadCb(k) == <<"read", k>>
\* the end of the loop's iteration
TickCb == <<"tick", 0>>

\* the loop runs the callback at the head of its queue
Running(cb) == ready # <<>> /\ Head(ready) = cb

InQueue(cb) == \E i \in 1..Len(ready) : ready[i] = cb

\* a future the task waits for is resolved: the task's wakeup is scheduled once
Wake(q, cb) == IF \E i \in 1..Len(q) : q[i] = cb THEN q ELSE Append(q, cb)

\* the transport created last: the one the peer talks to
Newest == Cardinality({k \in Transports : trans[k] # "unused"})

\* Client.__init__, line 30
mention_str == <<64>> \o name

\* StreamWriter.is_closing()
is_closing(w) == trans[w] # "open"

\* StreamReader.exception(): set by connection_lost(exc)
reader_exception(r) == trans[r] = "closed" /\ errored[r]

Line(kind, text, unfocused) == [kind |-> kind, text |-> text, unfocused |-> unfocused]
InfoLine(kind) == Line(kind, <<>>, FALSE)

\* index of the first delimiter of a buffer, 0 when there is none
FindDelimiter(b) ==
    IF \E i \in 1..Len(b) : b[i] = MESSAGE_DELIMITER
    THEN CHOOSE i \in 1..Len(b) :
            /\ b[i] = MESSAGE_DELIMITER
            /\ \A j \in 1..(i - 1) : b[j] # MESSAGE_DELIMITER
    ELSE 0

\* the index of the last delimiter of a buffer that holds one
LastDelimiter(b) ==
    CHOOSE i \in 1..Len(b) :
        /\ b[i] = MESSAGE_DELIMITER
        /\ \A j \in (i + 1)..Len(b) : b[j] # MESSAGE_DELIMITER

\* a read that returns everything up to the last delimiter buffered
ReadUntilLast(b) ==
    [data |-> SubSeq(b, 1, LastDelimiter(b)),
     rest |-> SubSeq(b, LastDelimiter(b) + 1, Len(b))]

\* StreamReader.readuntil on a buffer that holds a delimiter: the frame
\* returned (delimiter included) and what stays buffered
ReadUntil(b) ==
    LET i == FindDelimiter(b)
    IN  [data |-> SubSeq(b, 1, i), rest |-> SubSeq(b, i + 1, Len(b))]

\* a decision that lacks the else of line 177: a mention plays both sounds
NotifyBoth(message, nt, idx) ==
    IF ~focused
    THEN LET n1 == IF Contains(message, mention_str)
                   THEN Append(nt, [line |-> idx, sound |-> "mention"])
                   ELSE nt
         IN  Append(n1, [line |-> idx, sound |-> "message"])
    ELSE nt

\* lines 174-178: the sounds played for one decoded message
Notify(message, nt, idx) ==
    IF ~focused
    THEN IF Contains(message, mention_str)
         THEN Append(nt, [line |-> idx, sound |-> "mention"])
         ELSE Append(nt, [line |-> idx, sound |-> "message"])
    ELSE nt

\* where the receive loop stops, and with what
LoopResult(out, exc, b, lg, nt, fr) ==
    [out |-> out, exc |-> exc, buf |-> b, log |-> lg, notes |-> nt, frames |-> fr]

\* lines 173-179 for data that decodes: the Display Line and the sound
ShowLine(message, lg) == Append(lg, Line("msg", message, ~focused))

RECURSIVE RecvLoop(_, _, _, _, _)
RECURSIVE RecvCall(_, _, _, _, _)

\* lines 171-179: one recv() and the handling of its frame, then the loop
\* again. The result says where the task stops: "wait" (suspended in
\* readuntil), "disc" (the loop ended), "raise" (an exception left the loop).
\* readuntil raises the reader's exception, returns the first frame of the
\* buffer, raises IncompleteReadError at end of file, or waits for data.
RecvCall(w, b, lg, nt, fr) ==
    IF reader_exception(w)
    THEN LoopResult("raise", "ConnectionResetError", b, lg, nt, fr)
    ELSE IF FindDelimiter(b) # 0
    THEN LET r == ReadUntil(b)
             d == DecodeFrom(r.data)
             message == SubSeq(d.text, 1, Len(d.text) - 1)
         IN  IF ~d.ok
             THEN LoopResult("raise", "UnicodeDecodeError", r.rest, lg, nt,
                             Append(fr, r.data))
             ELSE RecvLoop(w, r.rest, ShowLine(message, lg),
                           Notify(message, nt, Len(lg) + 1), Append(fr, r.data))
    ELSE IF reof
    THEN LoopResult("raise", "IncompleteReadError", <<>>, lg, nt, fr)
    ELSE LoopResult("wait", "none", b, lg, nt, fr)

\* line 170: while not (self.reader.at_eof() or self.writer.is_closing())
RecvLoop(w, b, lg, nt, fr) ==
    IF (reof /\ b = <<>>) \/ is_closing(w)
    THEN LoopResult("disc", "none", b, lg, nt, fr)
    ELSE RecvCall(w, b, lg, nt, fr)

(***************************************************************************)
(* Initial state: the Client is constructed and asyncio.run() has          *)
(* scheduled _async_run.                                                   *)
(***************************************************************************)
\* what a run of _entry_binding returned, whether it found a live writer,
\* the text it found in the entry and whether it scheduled a send unit
Ret(ret, live, text, scheduled) ==
    [ret |-> ret, live |-> live, text |-> text, scheduled |-> scheduled]

NoRet == Ret("none", FALSE, <<>>, FALSE)

InitWith(n, e) ==
    /\ name = n
    /\ focused = TRUE
    /\ entry = e
    /\ idle_del = FALSE
    /\ last_ret = NoRet
    /\ ready = <<PumpCb, TickCb>>
    /\ pump_pc = "start"
    /\ net_pc = "none"
    /\ net_result = "none"
    /\ net_exc = "none"
    /\ cancel_req = FALSE
    /\ reader = 0
    /\ writer = 0
    /\ trans = [k \in Transports |-> "unused"]
    /\ errored = [k \in Transports |-> FALSE]
    /\ conn_res = "none"
    /\ rbuf = <<>>
    /\ reof = FALSE
    /\ npeer = 0
    /\ wire = [k \in Transports |-> <<>>]
    /\ units = <<>>
    /\ log = <<>>
    /\ notes = <<>>
    /\ stop_pc = "none"
    /\ stop_at = 0
    /\ restop = FALSE
    /\ refused = 0
    /\ frames = <<>>
    /\ stream = <<>>
    /\ fed = 0

\* the user's name in the session runs: "a"
SessionName == <<97>>

Init == InitWith(SessionName, <<>>)

(***************************************************************************)
(* The Pump: Client._async_run, and the Tk events self.update() handles.   *)
(***************************************************************************)
\* lines 204-212: create the net task, then draw once
PumpStart ==
    /\ Running(PumpCb)
    /\ pump_pc = "start"
    /\ pump_pc' = "update"
    /\ net_pc' = "start"
    /\ ready' = Append(ready, NetCb)
    /\ UNCHANGED <<uiVars, net_result, net_exc, cancel_req, reader, writer,
                   connVars, readVars, wire, units, log, notes, stopVars, refused, frames, framingVars>>

\* self.update() is handling Tk events
InUpdate == Running(PumpCb) /\ pump_pc = "update"

\* the texts the user types in the session runs: " ", " h"
TypedTexts == {<<32>>, <<32, 104>>}

\* the user edits the entry
Type ==
    /\ InUpdate
    /\ \E t \in TypedTexts : entry' = t
    /\ UNCHANGED <<name, focused, idle_del, last_ret, ready, pump_pc, netVars,
                   connVars, readVars, wire, units, log, notes, stopVars, refused, frames, framingVars>>

\* the window gains or loses the focus
FocusChange ==
    /\ InUpdate
    /\ focused' = ~focused
    /\ UNCHANGED <<name, entry, idle_del, last_ret, ready, pump_pc, netVars,
                   connVars, readVars, wire, units, log, notes, stopVars, refused, frames, framingVars>>

\* line 151: f"{self.name}: {message}\n".encode()
FormatData(n, message) == Encode(n \o <<58, 32>> \o message \o <<10>>)

\* a message stripped on the left only
EntryMessageLeftOnly(e) == LStrip(e \o <<10>>)

\* line 149: self.entry.get("1.0", "end").strip(); the Text widget ends its
\* content with a newline of its own
EntryMessage(e) == Strip(e \o <<10>>)

\* a guard that only asks whether there is a writer
NoWriterOnlyNone == writer = 0

\* line 145: the guard of _entry_binding
NoWriter == writer = 0 \/ is_closing(writer)

\* the send units that were scheduled and have not finished
InFlight == {j \in 1..Len(units) : units[j].pc \in {"new", "drain"}}

\* the send unit of lines 151-153: the entry text, the bytes, the unit's
\* position, the writer it used, the units in flight when it was scheduled
\* and what self.writer was then
NewUnit(e) ==
    [text |-> e, data |-> FormatData(name, EntryMessage(e)), pc |-> "new", w |-> 0,
     inflight |-> InFlight, at |-> writer]

\* lines 139-156: <Return> in the entry, nowriter being the guard of line 145
EntryBinding(nowriter) ==
    /\ InUpdate
    /\ IF nowriter
       THEN /\ last_ret' = Ret("break", FALSE, entry, FALSE)
            /\ UNCHANGED <<units, ready, idle_del>>
       ELSE /\ IF EntryMessage(entry) # <<>>
               THEN /\ Len(units) < MaxUnits
                    /\ units' = Append(units, NewUnit(entry))
                    /\ ready' = Append(ready, SendCb(Len(units) + 1))
               ELSE UNCHANGED <<units, ready>>
            /\ idle_del' = TRUE
            /\ last_ret' = Ret("break", TRUE, entry, EntryMessage(entry) # <<>>)
    /\ UNCHANGED <<name, focused, entry, pump_pc, netVars, connVars, readVars,
                   wire, log, notes, stopVars, refused, frames, framingVars>>

\* the binding with a guard that forgets is_closing()
EntryBindingNoClosingCheck == EntryBinding(writer = 0)

_entry_binding == EntryBinding(NoWriter)

\* line 155: the after_idle callback, self.entry.delete("1.0", "end")
IdleDelete ==
    /\ InUpdate
    /\ idle_del
    /\ entry' = <<>>
    /\ idle_del' = FALSE
    /\ UNCHANGED <<name, focused, last_ret, ready, pump_pc, netVars, connVars,
                   readVars, wire, units, log, notes, stopVars, refused, frames,
                   framingVars>>

\* lines 193-197: WM_DELETE_WINDOW; Task.cancel() does nothing to a task
\* that is done, and else has CancelledError thrown into the task at its
\* next step
stop ==
    /\ InUpdate
    /\ IF net_pc = "done"
       THEN UNCHANGED <<cancel_req, ready, stopVars>>
       ELSE /\ cancel_req' = TRUE
            /\ ready' = Wake(ready, NetCb)
            /\ IF stop_pc = "none"
               THEN stop_pc' = net_pc /\ stop_at' = Len(log)
               ELSE UNCHANGED <<stop_pc, stop_at>>
            /\ restop' = (restop \/ net_pc = "closing")
    /\ UNCHANGED <<uiVars, pump_pc, net_pc, net_result, net_exc, reader, writer,
                   connVars, readVars, wire, units, log, notes, refused, frames,
                   framingVars>>

\* line 216: update() returns (idle callbacks have run), the Pump sleeps
PumpSleep ==
    /\ InUpdate
    /\ ~idle_del
    /\ pump_pc' = "sleeping"
    /\ ready' = Tail(ready)
    /\ UNCHANGED <<uiVars, netVars, connVars, readVars, wire, units, log, notes,
                   stopVars, refused, frames, framingVars>>

\* the loop polls
Polling == Running(TickCb)

\* the loop has polled and starts its next iteration: what was scheduled
\* since the last poll runs, and what that schedules waits for the next
Tick ==
    /\ Polling
    /\ Len(ready) > 1
    /\ ready' = Append(Tail(ready), TickCb)
    /\ UNCHANGED <<uiVars, pump_pc, netVars, connVars, readVars, wire, units, log,
                   notes, stopVars, refused, frames, framingVars>>

\* the gui_timeout timer fires: the loop queues the timers that are due
\* after the socket events it polled
TimerFire ==
    /\ Polling
    /\ pump_pc = "sleeping"
    /\ pump_pc' = "woken"
    /\ ready' = Append(ready, PumpCb)
    /\ UNCHANGED <<uiVars, netVars, connVars, readVars, wire, units, log, notes,
                   stopVars, refused, frames, framingVars>>

\* line 215: while not self.net_task.done()
PumpLoop ==
    /\ Running(PumpCb)
    /\ pump_pc = "woken"
    /\ net_pc # "done"
    /\ pump_pc' = "update"
    /\ UNCHANGED <<uiVars, ready, netVars, connVars, readVars, wire, units, log,
                   notes, stopVars, refused, frames, framingVars>>

\* line 219: await self.net_task, which returns the task's result or raises
\* what ended it
PumpAwait ==
    /\ Running(PumpCb)
    /\ pump_pc = "woken"
    /\ net_pc = "done"
    /\ pump_pc' = IF net_result \in {"raised", "cancelled"} THEN "raised" ELSE "returned"
    /\ ready' = Tail(ready)
    /\ UNCHANGED <<uiVars, netVars, connVars, readVars, wire, units, log, notes,
                   stopVars, refused, frames, framingVars>>

(***************************************************************************)
(* The Session: Client.net, one action per step of the net task.           *)
(***************************************************************************)
\* the task ends
NetEnds(result, exc) ==
    /\ net_pc' = "done"
    /\ net_result' = result
    /\ net_exc' = exc

\* StreamWriter.close(): an open transport starts closing and schedules its
\* connection_lost callback; on a closing or closed transport it does nothing
CloseTransport(tr, k) == IF tr[k] = "open" THEN [tr EXCEPT ![k] = "closing"] ELSE tr
CloseQueue(q, tr, k) == IF tr[k] = "open" THEN Append(q, LostCb(k)) ELSE q

\* lines 165-167: the first step, up to the await of open_connection
NetStart ==
    /\ Running(NetCb)
    /\ net_pc = "start"
    /\ ~cancel_req
    /\ log' = Append(log, InfoLine("connecting"))
    /\ net_pc' = "connecting"
    /\ ready' = Tail(ready)
    /\ UNCHANGED <<uiVars, pump_pc, net_result, net_exc, cancel_req, reader,
                   writer, connVars, readVars, wire, units, notes, stopVars, refused, frames, framingVars>>

\* the task was cancelled before its first step: CancelledError is thrown
\* into the coroutine before it enters the try block of line 164
NetCancelUnstarted ==
    /\ Running(NetCb)
    /\ net_pc = "start"
    /\ cancel_req
    /\ NetEnds("cancelled", "CancelledError")
    /\ cancel_req' = FALSE
    /\ ready' = Tail(ready)
    /\ UNCHANGED <<uiVars, pump_pc, reader, writer, connVars, readVars, wire,
                   units, log, notes, stopVars, refused, frames, framingVars>>

\* where the net task stands after the receive loop stopped with result r on
\* transport w: suspended in readuntil (line 171), reconnecting after the
\* loop ended (lines 181-182, 166-167), or ended by the handler of line 190
AfterLoop(r, w) ==
    /\ rbuf' = r.buf
    /\ notes' = r.notes
    /\ frames' = r.frames
    /\ refused' = IF r.out = "disc" THEN 0 ELSE refused
    /\ CASE r.out = "wait" ->
              /\ net_pc' = "recv"
              /\ log' = r.log
              /\ ready' = Tail(ready)
              /\ UNCHANGED <<net_result, net_exc, trans>>
         [] r.out = "disc" ->
              /\ net_pc' = "connecting"
              /\ log' = r.log \o <<InfoLine("error"), InfoLine("connecting")>>
              /\ trans' = CloseTransport(trans, w)
              /\ ready' = CloseQueue(Tail(ready), trans, w)
              /\ UNCHANGED <<net_result, net_exc>>
         [] r.out = "raise" ->
              /\ NetEnds("error", r.exc)
              /\ log' = r.log
              /\ ready' = Tail(ready)
              /\ UNCHANGED trans

\* lines 167-170: open_connection returned a reader and a writer
NetConnected ==
    /\ Running(NetCb)
    /\ net_pc = "connecting"
    /\ ~cancel_req
    /\ conn_res = "ok"
    /\ reader' = Newest
    /\ writer' = Newest
    /\ conn_res' = "none"
    /\ AfterLoop(RecvLoop(Newest, rbuf, Append(log, InfoLine("connected")), notes,
                          frames),
                 Newest)
    /\ UNCHANGED <<uiVars, pump_pc, cancel_req, errored, reof, npeer,
                   wire, units, stopVars, framingVars>>

\* line 167 raises OSError: the handler of line 190 prints it, the task ends
NetConnectFailed ==
    /\ Running(NetCb)
    /\ net_pc = "connecting"
    /\ ~cancel_req
    /\ conn_res = "fail"
    /\ conn_res' = "none"
    /\ NetEnds("error", "ConnectionRefusedError")
    /\ ready' = Tail(ready)
    /\ UNCHANGED <<uiVars, pump_pc, cancel_req, reader, writer, trans, errored,
                   readVars, wire, units, log, notes, stopVars, refused, frames,
                   framingVars>>

\* line 171: the task wakes inside readuntil
NetRecvWake ==
    /\ Running(NetCb)
    /\ net_pc = "recv"
    /\ ~cancel_req
    /\ AfterLoop(RecvCall(writer, rbuf, log, notes, frames), writer)
    /\ UNCHANGED <<uiVars, pump_pc, cancel_req, reader, writer, errored,
                   conn_res, reof, npeer, wire, units, stopVars, framingVars>>

\* lines 184-188: CancelledError is thrown at the await the task is
\* suspended in (open_connection closes a transport it had already made);
\* waits says whether the handler awaits wait_closed() (line 188)
CancelHandler(waits) ==
    /\ Running(NetCb)
    /\ net_pc \in {"connecting", "recv"}
    /\ cancel_req
    /\ cancel_req' = FALSE
    /\ conn_res' = "none"
    /\ log' = Append(log, InfoLine("quitting"))
    /\ LET made == net_pc = "connecting" /\ conn_res = "ok"
           tr1 == IF made THEN CloseTransport(trans, Newest) ELSE trans
           q1 == IF made THEN CloseQueue(Tail(ready), trans, Newest) ELSE Tail(ready)
       IN  IF writer = 0
           THEN /\ NetEnds("raised", "AttributeError")
                /\ trans' = tr1
                /\ ready' = q1
           ELSE /\ trans' = CloseTransport(tr1, writer)
                /\ ready' = CloseQueue(q1, tr1, writer)
                /\ IF trans[writer] = "closed" \/ ~waits
                   THEN IF trans[writer] = "closed" /\ errored[writer]
                        THEN NetEnds("raised", "ConnectionResetError")
                        ELSE NetEnds("closed", "none")
                   ELSE /\ net_pc' = "closing"
                        /\ UNCHANGED <<net_result, net_exc>>
    /\ UNCHANGED <<uiVars, pump_pc, reader, writer, errored, readVars,
                   wire, units, notes, stopVars, refused, frames, framingVars>>

\* a handler that returns without awaiting wait_closed()
NetCancelledNoWait == CancelHandler(FALSE)

NetCancelled == CancelHandler(TRUE)

\* line 188: the task wakes in wait_closed, inside the handler of line 184
NetClosed ==
    /\ Running(NetCb)
    /\ net_pc = "closing"
    /\ IF cancel_req
       THEN NetEnds("cancelled", "CancelledError")
       ELSE IF errored[writer]
            THEN NetEnds("raised", "ConnectionResetError")
            ELSE NetEnds("closed", "none")
    /\ cancel_req' = FALSE
    /\ ready' = Tail(ready)
    /\ UNCHANGED <<uiVars, pump_pc, reader, writer, connVars, readVars, wire,
                   units, log, notes, stopVars, refused, frames, framingVars>>

(***************************************************************************)
(* The send units: Client.send.                                            *)
(***************************************************************************)
\* one write() call of send unit i
Written(i, data) == [unit |-> i, data |-> data]

\* a send that writes the first byte, yields to the loop, then writes the rest
SendWriteSplit(i) ==
    /\ Running(SendCb(i))
    /\ units[i].pc \in {"new", "half"}
    /\ LET d == units[i].data
           part == IF units[i].pc = "new" THEN SubSeq(d, 1, 1) ELSE SubSeq(d, 2, Len(d))
       IN  IF ~is_closing(writer)
           THEN /\ wire' = [wire EXCEPT ![writer] = Append(@, Written(i, part))]
                /\ IF units[i].pc = "new"
                   THEN /\ units' = [units EXCEPT ![i].pc = "half", ![i].w = writer]
                        /\ ready' = Append(Tail(ready), SendCb(i))
                   ELSE /\ units' = [units EXCEPT ![i].pc = "done"]
                        /\ ready' = Tail(ready)
           ELSE /\ UNCHANGED wire
                /\ units' = [units EXCEPT ![i].pc = "failed", ![i].w = writer]
                /\ ready' = Tail(ready)
    /\ UNCHANGED <<uiVars, pump_pc, netVars, connVars, readVars, log, notes,
                   stopVars, refused, frames, framingVars>>

\* lines 110-111: write() hands the bytes to an open transport and drops
\* them on a closing or closed one; drain() returns at once on an open
\* transport, raises the reader's exception, or yields once
SendWrite(i) ==
    /\ Running(SendCb(i))
    /\ units[i].pc = "new"
    /\ IF ~is_closing(writer)
       THEN /\ wire' = [wire EXCEPT ![writer] = Append(@, Written(i, units[i].data))]
            /\ units' = [units EXCEPT ![i].pc = "done", ![i].w = writer]
            /\ ready' = Tail(ready)
       ELSE /\ UNCHANGED wire
            /\ IF reader_exception(writer)
               THEN /\ units' = [units EXCEPT ![i].pc = "failed", ![i].w = writer]
                    /\ ready' = Tail(ready)
               ELSE /\ units' = [units EXCEPT ![i].pc = "drain", ![i].w = writer]
                    /\ ready' = Append(Tail(ready), SendCb(i))
    /\ UNCHANGED <<uiVars, pump_pc, netVars, connVars, readVars, log, notes,
                   stopVars, refused, frames, framingVars>>

\* a send whose failure is raised in the net task and ends it
SendDrainEndsNet(i) ==
    /\ Running(SendCb(i))
    /\ units[i].pc = "drain"
    /\ ready' = Tail(ready)
    /\ IF trans[units[i].w] = "closed"
       THEN /\ units' = [units EXCEPT ![i].pc = "failed"]
            /\ NetEnds("error", "ConnectionResetError")
       ELSE /\ units' = [units EXCEPT ![i].pc = "done"]
            /\ UNCHANGED <<net_pc, net_result, net_exc>>
    /\ UNCHANGED <<uiVars, pump_pc, cancel_req, reader, writer, connVars, readVars,
                   wire, log, notes, stopVars, refused, frames, framingVars>>

\* line 111: drain() after its yield raises ConnectionResetError when the
\* connection is lost
SendDrain(i) ==
    /\ Running(SendCb(i))
    /\ units[i].pc = "drain"
    /\ units' = [units EXCEPT
                   ![i].pc = IF trans[units[i].w] = "closed" THEN "failed" ELSE "done"]
    /\ ready' = Tail(ready)
    /\ UNCHANGED <<uiVars, pump_pc, netVars, connVars, readVars, wire, log,
                   notes, stopVars, refused, frames, framingVars>>

(***************************************************************************)
(* The transport and the peer.                                             *)
(***************************************************************************)
\* the awaits of the net task that transport k's connection_lost resolves
NetAwaits(k) ==
    \/ net_pc = "recv" /\ reader = k
    \/ net_pc = "closing" /\ writer = k

\* the connection_lost callback of transport k: the reader gets the exception
\* or end of file, wait_closed() is released
ConnectionLost(k) ==
    /\ Running(LostCb(k))
    /\ trans' = [trans EXCEPT ![k] = "closed"]
    /\ reof' = IF k = Newest /\ ~errored[k] THEN TRUE ELSE reof
    /\ ready' = IF NetAwaits(k) THEN Wake(Tail(ready), NetCb) ELSE Tail(ready)
    /\ UNCHANGED <<uiVars, pump_pc, netVars, errored, conn_res, rbuf,
                   npeer, wire, units, log, notes, stopVars, refused, frames, framingVars>>

\* open_connection is waiting for the peer
Connecting == net_pc = "connecting" /\ conn_res = "none" /\ ~cancel_req

\* the peer does one more thing
PeerActs ==
    /\ npeer < MaxPeer
    /\ npeer' = npeer + 1

\* the peer accepts: the transport and its reader exist, the task is woken
ConnectOK ==
    /\ Polling
    /\ Connecting
    /\ PeerActs
    /\ conn_res' = "ok"
    /\ trans' = [trans EXCEPT ![Newest + 1] = "open"]
    /\ rbuf' = <<>>
    /\ reof' = FALSE
    /\ ready' = Append(ready, NetCb)
    /\ UNCHANGED <<uiVars, pump_pc, netVars, errored, wire, units, log, notes,
                   stopVars, refused, frames, framingVars>>

\* the peer refuses
ConnectFail ==
    /\ Polling
    /\ Connecting
    /\ PeerActs
    /\ conn_res' = "fail"
    /\ refused' = refused + 1
    /\ ready' = Append(ready, NetCb)
    /\ UNCHANGED <<uiVars, pump_pc, netVars, trans, errored, rbuf, reof, wire,
                   units, log, notes, stopVars, frames, framingVars>>

\* the newest transport is open and the net task is connecting or receiving
PeerTalks ==
    /\ net_pc \in {"connecting", "recv"}
    /\ Newest > 0
    /\ trans[Newest] = "open"

\* the loop polls the newest transport's socket readable (data, end of file
\* or an error): it queues the transport's read callback, once per
\* iteration and ahead of the timers; a transport that is closing or has
\* seen the end of file is no longer polled
ReadReady ==
    /\ Polling
    /\ PeerTalks
    /\ ~reof
    /\ ~InQueue(ReadCb(Newest))
    /\ ~InQueue(PumpCb)
    /\ PeerActs
    /\ ready' = Append(ready, ReadCb(Newest))
    /\ UNCHANGED <<uiVars, pump_pc, netVars, connVars, rbuf, reof, wire, units,
                   log, notes, stopVars, refused, frames, framingVars>>

\* the read callback of transport k finds the transport open
Reads(k) == Running(ReadCb(k)) /\ trans[k] = "open"

\* the read callback of a transport that was closed since it was queued
ReadNothing ==
    /\ \E k \in Transports : Running(ReadCb(k)) /\ trans[k] # "open"
    /\ ready' = Tail(ready)
    /\ UNCHANGED <<uiVars, pump_pc, netVars, connVars, readVars, wire, units, log,
                   notes, stopVars, refused, frames, framingVars>>

\* the chunks the peer sends: "a\n", "@a\n", "a", 0xFF "\n", and two frames
\* in one chunk, "a\n@a\n"
Chunks == {<<97, 10>>, <<64, 97, 10>>, <<97>>, <<255, 10>>, <<97, 10, 64, 97, 10>>}

\* the wakeup of a task suspended in readuntil on the newest reader
WakeReader(q) == IF net_pc = "recv" /\ reader = Newest THEN Wake(q, NetCb) ELSE q

\* the read callback receives a chunk of C: StreamReader.feed_data wakes the
\* task suspended in readuntil. A selector transport waits for the next
\* poll; a proactor transport starts its next read before it delivers the
\* data, and when that read completes at once (more) its callback is
\* scheduled ahead of the task's wakeup
Feed(C) ==
    /\ Reads(Newest)
    /\ \E c \in C : rbuf' = rbuf \o c
    /\ \E more \in BOOLEAN :
          /\ more => npeer < MaxPeer
          /\ npeer' = IF more THEN npeer + 1 ELSE npeer
          /\ ready' = WakeReader(IF more THEN Append(Tail(ready), ReadCb(Newest))
                                         ELSE Tail(ready))
    /\ UNCHANGED <<uiVars, pump_pc, netVars, connVars, reof, wire, units,
                   log, notes, stopVars, refused, frames, framingVars>>

\* the read callback finds the peer's side closed: StreamReader.feed_eof;
\* the transport stays open
PeerEOF ==
    /\ Reads(Newest)
    /\ reof' = TRUE
    /\ ready' = WakeReader(Tail(ready))
    /\ UNCHANGED <<uiVars, pump_pc, netVars, connVars, rbuf, npeer, wire, units,
                   log, notes, stopVars, refused, frames, framingVars>>

\* the read callback gets an I/O error: the transport is force-closed with
\* the exception and schedules connection_lost(exc)
IOError ==
    /\ Reads(Newest)
    /\ trans' = [trans EXCEPT ![Newest] = "closing"]
    /\ errored' = [errored EXCEPT ![Newest] = TRUE]
    /\ ready' = Append(Tail(ready), LostCb(Newest))
    /\ UNCHANGED <<uiVars, pump_pc, netVars, conn_res, readVars, wire, units,
                   log, notes, stopVars, refused, frames, framingVars>>

\* the steps of the loop, of its callbacks and of the transport
LoopSteps ==
    \/ Tick
    \/ PumpStart \/ PumpSleep \/ TimerFire \/ PumpLoop \/ PumpAwait
    \/ NetStart \/ NetCancelUnstarted \/ NetConnected \/ NetConnectFailed
    \/ NetRecvWake \/ NetCancelled \/ NetClosed
    \/ \E k \in Transports : ConnectionLost(k)
    \/ ConnectOK \/ ConnectFail \/ ReadReady \/ ReadNothing \/ PeerEOF \/ IOError

SendSteps ==
    \/ \E i \in 1..MaxUnits : SendWrite(i)
    \/ \E i \in 1..MaxUnits : SendDrain(i)

Next ==
    \/ LoopSteps \/ SendSteps
    \/ Type \/ FocusChange \/ _entry_binding \/ IdleDelete \/ stop
    \/ Feed(Chunks)

\* the whole program
Spec == Init /\ [][Next]_vars

(***************************************************************************)
(* The program is checked in four environments, each a part of Spec's.     *)
(***************************************************************************)
\* the session with no <Return> pressed
NextSession == LoopSteps \/ FocusChange \/ stop \/ Feed(Chunks)

SessionSpec == Init /\ [][NextSession]_vars

\* the chunk the peer sends in the runs with send units: "a\n"
SendChunks == {<<97, 10>>}

\* the session with <Return> presses, the window keeping the focus
NextSend ==
    \/ LoopSteps \/ SendSteps
    \/ Type \/ _entry_binding \/ IdleDelete \/ stop
    \/ Feed(SendChunks)

SendSpec == Init /\ [][NextSend]_vars

\* sequences over A of length up to n
SeqsUpTo(A, n) == UNION {[1..k -> A] : k \in 0..n}

\* the Session is Connected on its first transport and suspended in recv();
\* the Pump is where pc says (in update() or asleep)
InitConnected(n, e, pc) ==
    /\ name = n
    /\ focused = TRUE
    /\ entry = e
    /\ idle_del = FALSE
    /\ last_ret = NoRet
    /\ ready = IF pc = "update" THEN <<PumpCb, TickCb>> ELSE <<TickCb>>
    /\ pump_pc = pc
    /\ net_pc = "recv"
    /\ net_result = "none"
    /\ net_exc = "none"
    /\ cancel_req = FALSE
    /\ reader = 1
    /\ writer = 1
    /\ trans = [k \in Transports |-> IF k = 1 THEN "open" ELSE "unused"]
    /\ errored = [k \in Transports |-> FALSE]
    /\ conn_res = "none"
    /\ rbuf = <<>>
    /\ reof = FALSE
    /\ npeer = 1
    /\ wire = [k \in Transports |-> <<>>]
    /\ units = <<>>
    /\ log = <<InfoLine("connecting"), InfoLine("connected")>>
    /\ notes = <<>>
    /\ stop_pc = "none"
    /\ stop_at = 0
    /\ restop = FALSE
    /\ refused = 0
    /\ frames = <<>>

\* the names and the entry texts of the <Return> runs: "a", "", "e-acute";
\* texts of spaces, newlines, "h" and "e-acute"
Names == {<<97>>, <<>>, <<233>>}
TextChars == {32, 10, 104, 233}

InitSubmit ==
    /\ \E n \in Names : \E e \in SeqsUpTo(TextChars, MaxText) :
          InitConnected(n, e, "update")
    /\ stream = <<>>
    /\ fed = 0

\* <Return> on a connected session, for every name and entry text
NextSubmit ==
    \/ Tick \/ _entry_binding \/ IdleDelete \/ PumpSleep \/ TimerFire \/ PumpLoop
    \/ \E i \in 1..MaxUnits : SendWrite(i)

SubmitSpec == InitSubmit /\ [][NextSubmit]_vars

\* the bytes of the peer's streams in the framing runs: "\n", "a", "b"
StreamBytes == {10, 97, 98}

InitFraming ==
    /\ InitConnected(SessionName, <<>>, "sleeping")
    /\ stream \in SeqsUpTo(StreamBytes, MaxStream)
    /\ fed = 0

\* StreamReader.feed_data of the next n bytes of the peer's stream
FramingFeed ==
    /\ Polling
    /\ net_pc = "recv"
    /\ \E n \in 1..(Len(stream) - fed) :
          /\ rbuf' = rbuf \o SubSeq(stream, fed + 1, fed + n)
          /\ fed' = fed + n
    /\ ready' = WakeReader(ready)
    /\ UNCHANGED <<uiVars, pump_pc, netVars, connVars, reof, npeer, wire, units,
                   log, notes, stopVars, refused, frames, stream>>

\* a connected session receiving a stream cut into chunks in every way
NextFraming == Tick \/ FramingFeed \/ NetRecvWake

FramingSpec == InitFraming /\ [][NextFraming]_vars

(***************************************************************************)
(* What the claims speak of.                                               *)
(***************************************************************************)
\* how many Display Lines of a kind a log holds
Count(lg, kind) == Cardinality({i \in 1..Len(lg) : lg[i].kind = kind})

\* the lines logged since the receive loop last ended (all, if it never did)
Episode ==
    LET ends == {i \in 1..Len(log) : log[i].kind = "error"}
        last == IF ends = {} THEN 0 ELSE CHOOSE i \in ends : \A j \in ends : j <= i
    IN  SubSeq(log, last + 1, Len(log))

\* how many write() calls of send unit i a transport accepted
TimesWritten(i) ==
    Cardinality({p \in Transports \X (1..MaxUnits) :
                    p[2] <= Len(wire[p[1]]) /\ wire[p[1]][p[2]].unit = i})

\* the Display Lines that show a frame, in order
Shown == SelectSeq(log, LAMBDA l : l.kind = "msg")

\* the text holds "@" followed by the name
HasMention(text) ==
    \E i \in 1..Len(text) :
        /\ text[i] = 64
        /\ i + Len(name) <= Len(text)
        /\ \A k \in 1..Len(name) : text[i + k] = name[k]

\* the sounds played for Display Line i
SoundsFor(i) == {j \in 1..Len(notes) : notes[j].line = i}

(***************************************************************************)
(* C1..C10.                                                                *)
(***************************************************************************)
\* C1: a disconnect while Connected (end of stream or an I/O error), whether
\* the loop's guard sees it or a pending recv() raises it, never ends the net
\* task: the task logs the error line, closes the transport and reconnects.
C1_DisconnectNeverEndsTask ==
    ~(/\ net_pc = "done"
      /\ net_result = "error"
      /\ net_exc \in {"IncompleteReadError", "ConnectionResetError"})

\* C2: a refused connect never ends the net task: it tries again.
C2_RefusedConnectNeverEndsTask ==
    ~(net_pc = "done" /\ net_exc = "ConnectionRefusedError")

\* C3: after N refused connects and one success the log holds one
\* "connecting" line for each refused attempt (and the one of the attempt that
\* succeeds), no "connected" line before the success and one after it: once
\* the task has dealt with a refusal it is at the next attempt or connected.
C3_Reconnection ==
    /\ Count(Episode, "connected") <= 1
    /\ Count(Episode, "connected") = 1 =>
          Count(Episode, "connecting") = refused + 1
    /\ (refused >= 1 /\ conn_res = "none" /\ stop_pc = "none") =>
          /\ net_pc \in {"connecting", "recv"}
          /\ Count(Episode, "connecting") = refused + 1

\* C4: after a stop request made while Connected no frame is shown or
\* notified (a frame that had arrived stays unprocessed), the handler has
\* close()d the transport, the net task returns only once the transport is
\* closed, and the Pump is past its final await only once the task is done.
C4_StopWhileConnected ==
    stop_pc = "recv" =>
        /\ \A i \in (stop_at + 1)..Len(log) : log[i].kind # "msg"
        /\ \A j \in 1..Len(notes) : notes[j].line <= stop_at
        /\ net_pc \in {"closing", "done"} => is_closing(writer)
        /\ net_result = "closed" => trans[writer] = "closed"
        /\ pump_pc \in {"returned", "raised"} => net_pc = "done"

\* a stop while Connected with a frame buffered: the frame stays in the
\* buffer, the transport is closed, the task has returned and so has the Pump
C4_Witness ==
    /\ stop_pc = "recv"
    /\ FindDelimiter(rbuf) # 0
    /\ net_result = "closed"
    /\ trans[writer] = "closed"
    /\ pump_pc = "returned"

\* C5: a stop request in any state of the Session (Connecting before the
\* first connection included) ends it in Closed: one "quitting" line, no
\* connect attempt after the request, no transport left open, and no
\* exception raised by the cancellation path.
C5_StopInAnyState ==
    (stop_pc \in {"connecting", "recv"} /\ net_pc = "done") =>
        /\ net_result = "closed"
        /\ Count(log, "quitting") = 1
        /\ \A k \in Transports : trans[k] # "open"
        /\ \A i \in (stop_at + 1)..Len(log) : log[i].kind # "connecting"

\* C6: the bytes of every send unit that _entry_binding scheduled are handed
\* to a transport exactly once: never twice, and once when the unit is over.
C6_WrittenExactlyOnce ==
    \A i \in 1..Len(units) :
        /\ TimesWritten(i) <= 1
        /\ units[i].pc \in {"done", "failed"} => TimesWritten(i) = 1

\* C7: <Return> with no live writer (none yet, or a closing or closed one)
\* schedules nothing, writes nothing, leaves the Session, the entry text and
\* its pending deletion as they are, and returns "break".
C7_SubmitWithoutWriterIsNoOp ==
    [][(_entry_binding /\ NoWriter) =>
          /\ last_ret'.ret = "break"
          /\ UNCHANGED <<name, focused, entry, idle_del, ready, pump_pc, netVars,
                         connVars, readVars, wire, units, log, notes, stopVars,
                         refused, frames, framingVars>>]_vars

\* <Return> on a text with a message in it found the writer closing
C7_Witness ==
    /\ last_ret.ret = "break"
    /\ ~last_ret.live
    /\ EntryMessage(last_ret.text) # <<>>
    /\ entry = last_ret.text
    /\ writer # 0
    /\ units = <<>>

\* the input text splits into whitespace, a body with no whitespace at
\* either end, and whitespace
TrimsTo(text, body) ==
    \E i \in 1..Len(text) : \E j \in i..Len(text) :
        /\ body = SubSeq(text, i, j)
        /\ ~IsSpace(text[i])
        /\ ~IsSpace(text[j])
        /\ \A k \in 1..Len(text) : (k < i \/ k > j) => IsSpace(text[k])

Blank(text) == \A k \in 1..Len(text) : IsSpace(text[k])

\* "alice", "  hello world  ", b"alice: hello world\n"
Alice == <<97, 108, 105, 99, 101>>
HelloPadded == <<32, 32, 104, 101, 108, 108, 111, 32, 119, 111, 114, 108, 100, 32, 32>>
AliceHelloBytes ==
    <<97, 108, 105, 99, 101, 58, 32, 104, 101, 108, 108, 111, 32, 119, 111, 114,
      108, 100, 10>>

\* C8: with a live writer, <Return> schedules a unit exactly when the entry
\* text is not blank, and the unit's bytes are the UTF-8 encoding of
\* "{name}: {body}\n", body being the text without its leading and trailing
\* whitespace (which trimming again leaves as it is).
C8_TrimmedFormat ==
    /\ \A i \in 1..Len(units) :
          \E j \in 1..Len(units[i].text) : \E k \in j..Len(units[i].text) :
             LET body == SubSeq(units[i].text, j, k)
                 d == DecodeFrom(units[i].data)
             IN  /\ TrimsTo(units[i].text, body)
                 /\ d.ok
                 /\ d.text = name \o <<58, 32>> \o body \o <<10>>
                 /\ Strip(body) = body
    /\ last_ret.live => (last_ret.scheduled <=> ~Blank(last_ret.text))
    /\ FormatData(Alice, EntryMessage(HelloPadded)) = AliceHelloBytes

\* a text with whitespace on both sides of its body was sent, its bytes are
\* on the wire; and a blank text scheduled nothing
C8_Witness ==
    /\ Len(units) >= 1
    /\ Len(units[1].text) = 3
    /\ IsSpace(units[1].text[1]) /\ IsSpace(units[1].text[3])
    /\ units[1].pc = "done"
    /\ wire[1] # <<>>

\* C9: every frame that recv() returned and that decodes is shown as one
\* Display Line with its text, in order; an unfocused window gets, for that
\* line, exactly one sound: the mention sound when the text holds "@{name}",
\* else the message sound; a focused window gets none.
C9_NotificationDecision ==
    /\ Len(Shown) = Len(frames) - (IF net_exc = "UnicodeDecodeError" THEN 1 ELSE 0)
    /\ \A k \in 1..Len(Shown) : Encode(Shown[k].text \o <<10>>) = frames[k]
    /\ \A j \in 1..Len(notes) :
          notes[j].line \in 1..Len(log) /\ log[notes[j].line].kind = "msg"
    /\ \A i \in 1..Len(log) :
          log[i].kind = "msg" =>
             IF log[i].unfocused
             THEN /\ Cardinality(SoundsFor(i)) = 1
                  /\ \A j \in SoundsFor(i) :
                        notes[j].sound =
                           IF HasMention(log[i].text) THEN "mention" ELSE "message"
             ELSE SoundsFor(i) = {}

\* three frames were shown: a mention and a plain line with the window
\* unfocused, and a line with the window focused
C9_Witness ==
    /\ \E i \in 1..Len(log) :
          log[i].kind = "msg" /\ log[i].unfocused /\ HasMention(log[i].text)
    /\ \E i \in 1..Len(log) :
          log[i].kind = "msg" /\ log[i].unfocused /\ ~HasMention(log[i].text)
    /\ \E i \in 1..Len(log) : log[i].kind = "msg" /\ ~log[i].unfocused
    /\ Len(notes) = 2

\* the positions of the delimiters of s
Delimiters(s) == {i \in 1..Len(s) : s[i] = MESSAGE_DELIMITER}

\* the k-th delimiter of s
NthDelimiter(s, k) ==
    CHOOSE p \in Delimiters(s) : Cardinality({q \in Delimiters(s) : q <= p}) = k

\* s split on the delimiter: its complete frames, each with its delimiter
SplitFrames(s) ==
    [k \in 1..Cardinality(Delimiters(s)) |->
        SubSeq(s, IF k = 1 THEN 1 ELSE NthDelimiter(s, k - 1) + 1, NthDelimiter(s, k))]

RECURSIVE Flatten(_)
Flatten(ss) == IF ss = <<>> THEN <<>> ELSE Head(ss) \o Flatten(Tail(ss))

\* what the peer has sent so far
Fed == SubSeq(stream, 1, fed)

\* C10: however the peer's stream is cut into chunks, the frames the
\* successive recv() calls returned are the first frames of the stream split
\* on the delimiter, each ending in its only delimiter; no byte is lost or
\* repeated; and once the task is suspended in recv() every complete frame
\* was returned and the bytes after the last delimiter are in the buffer.
C10_ChunkingInvariance ==
    /\ Len(frames) <= Len(SplitFrames(Fed))
    /\ \A k \in 1..Len(frames) :
          /\ frames[k] = SplitFrames(stream)[k]
          /\ Delimiters(frames[k]) = {Len(frames[k])}
    /\ Flatten(frames) \o rbuf = Fed
    /\ ~InQueue(NetCb) =>
          /\ frames = SplitFrames(Fed)
          /\ Delimiters(rbuf) = {}

\* a stream of two frames and a partial third was received: two frames
\* returned, the partial one buffered
C10_Witness ==
    /\ fed = Len(stream)
    /\ Len(frames) = 2
    /\ rbuf # <<>>
    /\ ~InQueue(NetCb)

\* the bytes transport k accepted, in order
WireData(k) == Flatten([j \in 1..Len(wire[k]) |-> wire[k][j].data])

\* for each of those bytes, the send unit that wrote it
WireOwner(k) ==
    Flatten([j \in 1..Len(wire[k]) |->
                [b \in 1..Len(wire[k][j].data) |-> wire[k][j].unit]])

\* C11: on every transport the bytes of a send unit are one contiguous block
\* that reads as the unit's data: no byte of another unit lies inside it.
C11_NoInterleaving ==
    \A k \in Transports : \A i \in 1..Len(units) :
        LET pos == {p \in 1..Len(WireOwner(k)) : WireOwner(k)[p] = i}
        IN  pos # {} =>
               \E a \in pos :
                  /\ pos = a..(a + Len(units[i].data) - 1)
                  /\ SubSeq(WireData(k), a, a + Len(units[i].data) - 1) = units[i].data

\* two units were in flight together, a frame was received meanwhile, and
\* both units wrote to the first transport
C11_Witness ==
    /\ Len(units) = 2
    /\ 1 \in units[2].inflight
    /\ Len(wire[1]) = 2
    /\ Len(Shown) >= 1

\* _async_run is over: the await of line 219 returned or raised
PumpOver == pump_pc \in {"returned", "raised"}

\* C12: the Pump leaves its loop only when the net task is done, and after a
\* stop request, in whatever state it found the net task, the Pump's await
\* of the task returns: _async_run ends without an exception.
C12_PumpEndsNormallyAfterStop ==
    /\ PumpOver => net_pc = "done"
    /\ (stop_pc # "none" /\ PumpOver) => pump_pc = "returned"

\* the transports that are open and not closing
Live == {k \in Transports : trans[k] = "open"}

\* C13: at most one transport is live, and a live transport is the writer of
\* a net task that is Connected (in its receive loop), or the one that
\* open_connection has made and is about to return to the task: when the
\* task is connecting or has ended, no transport of its is left open.
C13_OneLiveTransport ==
    /\ Cardinality(Live) <= 1
    /\ \A k \in Live :
          \/ net_pc = "recv" /\ writer = k
          \/ net_pc = "connecting" /\ conn_res = "ok" /\ k = Newest

\* every frame recv() returned is shown, in order, as the line it decodes to
FramesShown ==
    /\ Len(Shown) = Len(frames)
    /\ \A k \in 1..Len(Shown) : Encode(Shown[k].text \o <<10>>) = frames[k]

\* C14: as long as no stop was requested, every complete frame received on
\* a connection is logged as one Display Line, in the order received: the
\* frames recv() returned are the lines shown, and when the net task has
\* nothing left to run no complete frame is left unread in the buffer, the
\* peer having closed or the connection being lost included.
C14_EveryFrameLogged ==
    stop_pc = "none" =>
        /\ FramesShown
        /\ ~InQueue(NetCb) => FindDelimiter(rbuf) = 0

\* the frames recv() returned that are not valid UTF-8
Undecodable == {k \in 1..Len(frames) : ~DecodeFrom(frames[k]).ok}

\* C15: a frame that is not valid UTF-8 is taken as text like any other: it
\* gets its Display Line, and the net task neither ends nor leaves the
\* connection because of it.
C15_AnyBytesAreText ==
    Undecodable # {} =>
        /\ net_exc # "UnicodeDecodeError"
        /\ stop_pc = "none" => Len(Shown) = Len(frames)

\* C16: the bytes of every send unit are one wire frame: they hold one
\* delimiter, their last byte, whatever the entry text was.
C16_OneFramePerMessage ==
    \A i \in 1..Len(units) : Delimiters(units[i].data) = {Len(units[i].data)}

\* a step of send unit i that ends it with an exception
SendFails(i) == (SendWrite(i) \/ SendDrain(i)) /\ units'[i].pc = "failed"

\* C17: a send unit that fails on a closing or closed transport fails alone:
\* its step leaves the net task (position, result, pending cancellation),
\* self.reader and self.writer, the transports, the Pump and the log as
\* they are.
C17_SendFailsAlone ==
    [][(\E i \in 1..MaxUnits : SendFails(i)) =>
          UNCHANGED <<netVars, connVars, readVars, pump_pc, uiVars, wire, log,
                      notes, stopVars, refused, frames>>]_vars

\* a send unit failed on the first transport, and the net task went on to
\* its second connection while the Pump keeps running
C17_Witness ==
    /\ \E i \in 1..Len(units) : units[i].pc = "failed" /\ units[i].w = 1
    /\ net_pc = "recv"
    /\ writer = 2
    /\ ~PumpOver

\* C18: a stop request that arrives while the net task waits in
\* wait_closed() (the first one handled, the connection not lost with an
\* error) changes nothing: the task still returns with its transport closed
\* and the Pump's await of the task returns.
C18_SecondStopHarmless ==
    (restop /\ ~errored[writer]) =>
        /\ net_pc = "done" => (net_result = "closed" /\ trans[writer] = "closed")
        /\ PumpOver => pump_pc = "returned"

\* C19: a send unit uses the writer the Session holds when the unit runs,
\* and that is still the writer of the connection on which the message was
\* accepted: a transport holds only bytes of units accepted on it, a
\* reconnect between <Return> and the unit's first step never having put
\* a later connection in self.writer.
C19_NeverOnLaterConnection ==
    /\ \A i \in 1..Len(units) : units[i].w # 0 => units[i].w = units[i].at
    /\ \A k \in Transports : \A j \in 1..Len(wire[k]) :
          units[wire[k][j].unit].at = k

\* a message accepted on the first connection met a closing writer and was
\* not written; the Session reconnected, and the second connection got
\* only the message accepted on it
C19_Witness ==
    /\ Len(units) = 2
    /\ units[1].at = 1 /\ units[1].pc = "failed"
    /\ wire[1] = <<>>
    /\ units[2].at = 2
    /\ Len(wire[2]) = 1 /\ wire[2][1].unit = 2

\* the send units accepted while transport k was self.writer, in the order
\* of their <Return>
AcceptedOn(k) ==
    SelectSeq([i \in 1..Len(units) |-> i], LAMBDA i : units[i].at = k)

\* the send units whose write() calls transport k accepted, in wire order
WrittenOn(k) == [j \in 1..Len(wire[k]) |-> wire[k][j].unit]

\* the messages of transport k reach the wire whole and in submission order
InSubmissionOrder(k) ==
    /\ Len(WrittenOn(k)) <= Len(AcceptedOn(k))
    /\ WrittenOn(k) = SubSeq(AcceptedOn(k), 1, Len(WrittenOn(k)))
    /\ \A j \in 1..Len(wire[k]) : wire[k][j].data = units[wire[k][j].unit].data

\* C20: the bytes written to a connection are the messages accepted on it,
\* whole and in the order of their submission: the units written are the
\* first of the units accepted, and all of them once every unit is over.
C20_SubmissionOrder ==
    \A k \in Transports :
        /\ InSubmissionOrder(k)
        /\ InFlight = {} => WrittenOn(k) = AcceptedOn(k)

====
